---- MODULE Spec2Model ----
(***************************************************************************)
(* A model of audioplayer.go: the AudioPlayer controller (Start, Stop,     *)
(* Close), the background copy goroutine spawned by Start, and the         *)
(* context-aware reader readerCtx.                                         *)
(*                                                                         *)
(* Threads are the caller goroutines and one copy goroutine per Start      *)
(* that got as far as the go statement.  Every Start call gets a number    *)
(* n (1, 2, ...); the cancel function, the FFmpeg command and the          *)
(* oto.Player that call creates are all named n.  oto contexts are named   *)
(* 1, 2, ... in order of creation.  0 stands for nil.                      *)
(***************************************************************************)
EXTENDS Naturals, Integers, Sequences, FiniteSets

\* Bounds of the model.
NCallers == 2
MaxStarts == 3
MaxCalls == 3
MaxChunks == 2
MaxN == 3

Callers == {<<"caller", i>> : i \in 1..NCallers}
Tasks == {<<"task", k>> : k \in 1..MaxStarts}
Threads == Callers \cup Tasks
Ids == 1..MaxStarts
NoOne == <<"none", 0>>

Caller(i) == <<"caller", i>>
Task(k) == <<"task", k>>

VARIABLES
    mu,             \* ap.mu: the thread holding it, or NoOne
    wg,             \* ap.wg: the WaitGroup counter
    cancelPlayback, \* ap.cancelPlayback: the token it cancels, 0 = nil
    ffmpegCmd,      \* ap.ffmpegCmd: the process, 0 = nil
    player,         \* ap.player: the sink, 0 = nil
    context,        \* ap.context: the oto context, 0 = nil
    cancelled,      \* the tokens whose cancel function has been called
    launched,       \* the processes ffmpegCmd.Start() has started
    reaps,          \* per process: how often it was killed and waited on
    nread,          \* per process: chunks read from its stdout pipe
    sinkCtx,        \* per sink: the oto context it was minted from, 0 = none
    sinkClosed,     \* the sinks that were closed
    ctxCloses,      \* per oto context: how often Close was called on it
    nCtx,           \* oto contexts created so far
    nStarts,        \* Start calls made so far
    nCalls,         \* calls of Start, Stop and Close made so far by the callers
    pc,             \* per thread: where it is in the code
    stack,          \* per thread: where its calls return to
    lcmd,           \* per caller: the number of the Start call it is in
    tdst,           \* per copy goroutine: the sink io.Copy writes to
    panicked,       \* a nil dereference has ended the program
    closeEntered,   \* history: Close has been called (by a caller or by Start)
    wac,            \* history, per token: writes made after its cancellation
    closed,         \* history: a Close called by a caller has returned
    rpc,            \* the reader examined alone: where its Read call is
    rctx,           \* the reader examined alone: r.ctx is cancelled
    rseen,          \* the reader examined alone: what line 149 saw of r.ctx.Err()
    rlen,           \* the reader examined alone: len(p) of this Read
    rcalls,         \* the reader examined alone: calls of r.r.Read in this Read
    rsrc,           \* the reader examined alone: what r.r.Read returned, <<n, err>>
    rret            \* the reader examined alone: what Read returns, <<n, err>>

ctl == <<mu, wg, cancelPlayback, ffmpegCmd, player, context>>
env == <<cancelled, launched, reaps, nread, sinkCtx, sinkClosed, ctxCloses, nCtx>>
thr == <<nStarts, nCalls, pc, stack, lcmd, tdst, panicked>>
hist == <<closeEntered, wac, closed>>
rdr == <<rpc, rctx, rseen, rlen, rcalls, rsrc, rret>>
vars == <<ctl, env, thr, hist, rdr>>

\* NewAudioPlayer, lines 37-43: the zero value of every field, no goroutine
\* but the callers'.
NewAudioPlayer ==
    /\ mu = NoOne
    /\ wg = 0
    /\ cancelPlayback = 0
    /\ ffmpegCmd = 0
    /\ player = 0
    /\ context = 0
    /\ cancelled = {}
    /\ launched = {}
    /\ reaps = [p \in Ids |-> 0]
    /\ nread = [p \in Ids |-> 0]
    /\ sinkCtx = [s \in Ids |-> 0]
    /\ sinkClosed = {}
    /\ ctxCloses = [x \in Ids |-> 0]
    /\ nCtx = 0
    /\ nStarts = 0
    /\ nCalls = 0
    /\ pc = [t \in Threads |-> IF t \in Callers THEN "idle" ELSE "t_none"]
    /\ stack = [t \in Threads |-> <<>>]
    /\ lcmd = [c \in Callers |-> 0]
    /\ tdst = [k \in Ids |-> 0]
    /\ panicked = FALSE
    /\ closeEntered = FALSE
    /\ wac = [k \in Ids |-> 0]
    /\ closed = FALSE

\* The results of a Read: <<n, err>>, the byte count and the error ("nil" for
\* none).  NoResult stands for no result yet.
NoResult == <<>>
Canceled == <<0, "context canceled">>
StreamErrors == {"nil", "EOF", "file already closed"}

\* The reader examined alone is at rest while the controller runs.
ReaderAtRest ==
    /\ rpc = "r_idle"
    /\ rctx = FALSE
    /\ rseen = FALSE
    /\ rlen = 0
    /\ rcalls = 0
    /\ rsrc = NoResult
    /\ rret = NoResult

Init == NewAudioPlayer /\ ReaderAtRest

\* A thread moves to a new place in the code.
Goto(t, l) == pc' = [pc EXCEPT ![t] = l]

\* A call: the thread enters the callee and remembers where to return.
Call(t, l, ret) ==
    /\ pc' = [pc EXCEPT ![t] = l]
    /\ stack' = [stack EXCEPT ![t] = ret \o @]

\* A return to the place the call was made from.
Return(t) ==
    /\ pc' = [pc EXCEPT ![t] = Head(stack[t])]
    /\ stack' = [stack EXCEPT ![t] = Tail(@)]

----
\* The callers: each call of the public API starts from "idle".

CallStart(c) ==
    /\ ~panicked
    /\ pc[c] = "idle"
    /\ nCalls < MaxCalls
    /\ nStarts < MaxStarts
    /\ nCalls' = nCalls + 1
    /\ nStarts' = nStarts + 1
    /\ lcmd' = [lcmd EXCEPT ![c] = nStarts + 1]
    /\ Goto(c, "s_lock")
    /\ UNCHANGED <<ctl, env, stack, tdst, panicked, hist, rdr>>

CallStop(c) ==
    /\ ~panicked
    /\ pc[c] = "idle"
    /\ nCalls < MaxCalls
    /\ nCalls' = nCalls + 1
    /\ Call(c, "st_lock", <<"idle">>)
    /\ UNCHANGED <<ctl, env, nStarts, lcmd, tdst, panicked, hist, rdr>>

CallClose(c) ==
    /\ ~panicked
    /\ pc[c] = "idle"
    /\ nCalls < MaxCalls
    /\ nCalls' = nCalls + 1
    /\ Call(c, "st_lock", <<"c_check", "idle">>)
    /\ closeEntered' = TRUE
    /\ UNCHANGED <<ctl, env, nStarts, lcmd, tdst, panicked, wac, closed, rdr>>

----
\* Start, lines 47-105.  The deferred Unlock runs at every return.

\* Start's return with an error: the deferred Unlock, then back to the caller.
StartFail(c) ==
    /\ mu' = NoOne
    /\ lcmd' = [lcmd EXCEPT ![c] = 0]
    /\ Goto(c, "idle")

\* Lines 48-55: Lock; with a command still set, Unlock and call Close, which
\* Start follows with Lock again.
StartLock(c) ==
    /\ ~panicked
    /\ pc[c] = "s_lock"
    /\ mu = NoOne
    /\ IF ffmpegCmd # 0
         THEN /\ Call(c, "st_lock", <<"c_check", "s_relock">>)
              /\ closeEntered' = TRUE
              /\ UNCHANGED mu
         ELSE /\ mu' = c
              /\ Goto(c, "s_pipe")
              /\ UNCHANGED <<stack, closeEntered>>
    /\ UNCHANGED <<wg, cancelPlayback, ffmpegCmd, player, context, env,
                   nStarts, nCalls, lcmd, tdst, panicked, wac, closed, rdr>>

\* A faulty Start for comparison: line 54 is missing, Start goes on without
\* the mutex after the nested Close.
StartRelockNoLock(c) ==
    /\ ~panicked
    /\ pc[c] = "s_relock"
    /\ Goto(c, "s_pipe")
    /\ UNCHANGED <<ctl, env, nStarts, nCalls, stack, lcmd, tdst, panicked, hist, rdr>>

\* Line 54: Lock again after the nested Close.
StartRelock(c) ==
    /\ ~panicked
    /\ pc[c] = "s_relock"
    /\ mu = NoOne
    /\ mu' = c
    /\ Goto(c, "s_pipe")
    /\ UNCHANGED <<wg, cancelPlayback, ffmpegCmd, player, context, env,
                   nStarts, nCalls, stack, lcmd, tdst, panicked, hist, rdr>>

\* Lines 58-80: StdoutPipe succeeds, a fresh cancel function is stored, and
\* ffmpegCmd.Start() succeeds: the process runs.
StartDecoder(c) ==
    /\ ~panicked
    /\ pc[c] = "s_pipe"
    /\ cancelPlayback' = lcmd[c]
    /\ launched' = launched \cup {lcmd[c]}
    /\ Goto(c, "s_ctx")
    /\ UNCHANGED <<mu, wg, ffmpegCmd, player, context,
                   cancelled, reaps, nread, sinkCtx, sinkClosed, ctxCloses, nCtx,
                   nStarts, nCalls, stack, lcmd, tdst, panicked, hist, rdr>>

\* Lines 69-72: StdoutPipe fails.
StartPipeFail(c) ==
    /\ ~panicked
    /\ pc[c] = "s_pipe"
    /\ StartFail(c)
    /\ UNCHANGED <<wg, cancelPlayback, ffmpegCmd, player, context, env,
                   nStarts, nCalls, stack, tdst, panicked, hist, rdr>>

\* Lines 74-80: the cancel function is stored, then ffmpegCmd.Start() fails.
StartLaunchFail(c) ==
    /\ ~panicked
    /\ pc[c] = "s_pipe"
    /\ cancelPlayback' = lcmd[c]
    /\ StartFail(c)
    /\ UNCHANGED <<wg, ffmpegCmd, player, context, env,
                   nStarts, nCalls, stack, tdst, panicked, hist, rdr>>

\* A faulty Start for comparison: the test of line 83 is missing and every
\* Start creates an oto context.
StartContextAlways(c) ==
    /\ ~panicked
    /\ pc[c] = "s_ctx"
    /\ nCtx < MaxStarts
    /\ nCtx' = nCtx + 1
    /\ context' = nCtx + 1
    /\ Goto(c, "s_player")
    /\ UNCHANGED <<mu, wg, cancelPlayback, ffmpegCmd, player,
                   cancelled, launched, reaps, nread, sinkCtx, sinkClosed, ctxCloses,
                   nStarts, nCalls, stack, lcmd, tdst, panicked, hist, rdr>>

\* Lines 83-91: the oto context is created when ap.context is nil.
StartContext(c) ==
    /\ ~panicked
    /\ pc[c] = "s_ctx"
    /\ IF context = 0
         THEN /\ nCtx' = nCtx + 1
              /\ context' = nCtx + 1
         ELSE UNCHANGED <<nCtx, context>>
    /\ Goto(c, "s_player")
    /\ UNCHANGED <<mu, wg, cancelPlayback, ffmpegCmd, player,
                   cancelled, launched, reaps, nread, sinkCtx, sinkClosed, ctxCloses,
                   nStarts, nCalls, stack, lcmd, tdst, panicked, hist, rdr>>

\* Lines 86-89: oto.NewContext fails.
StartContextFail(c) ==
    /\ ~panicked
    /\ pc[c] = "s_ctx"
    /\ context = 0
    /\ StartFail(c)
    /\ UNCHANGED <<wg, cancelPlayback, ffmpegCmd, player, context, env,
                   nStarts, nCalls, stack, tdst, panicked, hist, rdr>>

\* Lines 93-94: wg.Add(1), then a player minted from ap.context as it is now;
\* NewPlayer on a nil context dereferences nil.
StartPlayer(c) ==
    /\ ~panicked
    /\ pc[c] = "s_player"
    /\ wg' = wg + 1
    /\ IF context = 0
         THEN /\ panicked' = TRUE
              /\ UNCHANGED <<player, sinkCtx, pc>>
         ELSE /\ player' = lcmd[c]
              /\ sinkCtx' = [sinkCtx EXCEPT ![lcmd[c]] = context]
              /\ Goto(c, "s_go")
              /\ UNCHANGED panicked
    /\ UNCHANGED <<mu, cancelPlayback, ffmpegCmd, context,
                   cancelled, launched, reaps, nread, sinkClosed, ctxCloses, nCtx,
                   nStarts, nCalls, stack, lcmd, tdst, hist, rdr>>

\* Lines 95-105: the go statement, ap.ffmpegCmd = ffmpegCmd, return nil
\* (with the deferred Unlock).
StartSpawn(c) ==
    /\ ~panicked
    /\ pc[c] = "s_go"
    /\ ffmpegCmd' = lcmd[c]
    /\ mu' = NoOne
    /\ pc' = [pc EXCEPT ![c] = "idle", ![Task(lcmd[c])] = "t_eval"]
    /\ lcmd' = [lcmd EXCEPT ![c] = 0]
    /\ UNCHANGED <<wg, cancelPlayback, player, context, env,
                   nStarts, nCalls, stack, tdst, panicked, hist, rdr>>

----
\* Stop, lines 109-131, run by a caller, by Close or by a copy goroutine.

\* A faulty Stop for comparison: it also clears the cancel function it called.
StopLockClearsCancel(t) ==
    /\ ~panicked
    /\ pc[t] = "st_lock"
    /\ mu = NoOne
    /\ mu' = t
    /\ cancelled' = IF cancelPlayback # 0 THEN cancelled \cup {cancelPlayback}
                                           ELSE cancelled
    /\ cancelPlayback' = 0
    /\ Goto(t, "st_wait")
    /\ UNCHANGED <<wg, ffmpegCmd, player, context,
                   launched, reaps, nread, sinkCtx, sinkClosed, ctxCloses, nCtx,
                   nStarts, nCalls, stack, lcmd, tdst, panicked, hist, rdr>>

\* Lines 110-116: Lock, then the stored cancel function is called.
StopLock(t) ==
    /\ ~panicked
    /\ pc[t] = "st_lock"
    /\ mu = NoOne
    /\ mu' = t
    /\ cancelled' = IF cancelPlayback # 0 THEN cancelled \cup {cancelPlayback}
                                           ELSE cancelled
    /\ Goto(t, "st_wait")
    /\ UNCHANGED <<wg, cancelPlayback, ffmpegCmd, player, context,
                   launched, reaps, nread, sinkCtx, sinkClosed, ctxCloses, nCtx,
                   nStarts, nCalls, stack, lcmd, tdst, panicked, hist, rdr>>

\* A faulty Stop for comparison: line 119 is missing, Stop does not wait.
StopNoWait(t) ==
    /\ ~panicked
    /\ pc[t] = "st_wait"
    /\ Goto(t, "st_kill")
    /\ UNCHANGED <<ctl, env, nStarts, nCalls, stack, lcmd, tdst, panicked, hist, rdr>>

\* Line 119: wg.Wait() returns once the counter is zero.
StopWait(t) ==
    /\ ~panicked
    /\ pc[t] = "st_wait"
    /\ wg = 0
    /\ Goto(t, "st_kill")
    /\ UNCHANGED <<ctl, env, nStarts, nCalls, stack, lcmd, tdst, panicked, hist, rdr>>

\* Lines 121-131: Kill, Wait and clear the command; close and clear the
\* player; then the deferred Unlock.
StopTeardown(t) ==
    /\ ~panicked
    /\ pc[t] = "st_kill"
    /\ IF ffmpegCmd # 0
         THEN /\ reaps' = [reaps EXCEPT ![ffmpegCmd] = @ + 1]
              /\ ffmpegCmd' = 0
         ELSE UNCHANGED <<reaps, ffmpegCmd>>
    /\ IF player # 0
         THEN /\ sinkClosed' = sinkClosed \cup {player}
              /\ player' = 0
         ELSE UNCHANGED <<sinkClosed, player>>
    /\ mu' = NoOne
    /\ Return(t)
    /\ UNCHANGED <<wg, cancelPlayback, context,
                   cancelled, launched, nread, sinkCtx, ctxCloses, nCtx,
                   nStarts, nCalls, lcmd, tdst, panicked, hist, rdr>>

----
\* Close, lines 134-140: after Stop has returned, without the mutex.

\* Line 136: the test of ap.context.
CloseCheck(t) ==
    /\ ~panicked
    /\ pc[t] = "c_check"
    /\ IF context = 0
         THEN /\ Return(t)
              /\ closed' = (closed \/ Head(stack[t]) = "idle")
         ELSE /\ Goto(t, "c_close")
              /\ UNCHANGED <<stack, closed>>
    /\ UNCHANGED <<ctl, env, nStarts, nCalls, lcmd, tdst, panicked,
                   closeEntered, wac, rdr>>

\* Line 137: ap.context.Close(), on ap.context as it is now; on nil it
\* dereferences nil.
CloseContext(t) ==
    /\ ~panicked
    /\ pc[t] = "c_close"
    /\ IF context = 0
         THEN /\ panicked' = TRUE
              /\ UNCHANGED <<ctxCloses, pc>>
         ELSE /\ ctxCloses' = [ctxCloses EXCEPT ![context] = @ + 1]
              /\ Goto(t, "c_nil")
              /\ UNCHANGED panicked
    /\ UNCHANGED <<ctl, cancelled, launched, reaps, nread, sinkCtx, sinkClosed, nCtx,
                   nStarts, nCalls, stack, lcmd, tdst, hist, rdr>>

\* A faulty Close for comparison: line 138 is missing, the closed context
\* stays in ap.context.
CloseNilKeepsContext(t) ==
    /\ ~panicked
    /\ pc[t] = "c_nil"
    /\ Return(t)
    /\ closed' = (closed \/ Head(stack[t]) = "idle")
    /\ UNCHANGED <<ctl, env, nStarts, nCalls, lcmd, tdst, panicked,
                   closeEntered, wac, rdr>>

\* Lines 138-140: ap.context = nil, and Close returns.
CloseNil(t) ==
    /\ ~panicked
    /\ pc[t] = "c_nil"
    /\ context' = 0
    /\ Return(t)
    /\ closed' = (closed \/ Head(stack[t]) = "idle")
    /\ UNCHANGED <<mu, wg, cancelPlayback, ffmpegCmd, player, env,
                   nStarts, nCalls, lcmd, tdst, panicked, closeEntered, wac, rdr>>

----
\* The copy goroutine of Start number k, lines 95-101, with io.Copy's loop:
\* Read from the reader, Write what was read, stop at the first error or EOF.

\* Line 96: the arguments of io.Copy are evaluated; ap.player is read.
TaskEval(k) ==
    /\ ~panicked
    /\ pc[Task(k)] = "t_eval"
    /\ tdst' = [tdst EXCEPT ![k] = player]
    /\ Goto(Task(k), "t_check")
    /\ UNCHANGED <<ctl, env, nStarts, nCalls, stack, lcmd, panicked, hist, rdr>>

\* A faulty reader for comparison: Read does not look at the context.
TaskCheckUnchecked(k) ==
    /\ ~panicked
    /\ pc[Task(k)] = "t_check"
    /\ Goto(Task(k), "t_read")
    /\ UNCHANGED <<ctl, env, nStarts, nCalls, stack, lcmd, tdst, panicked, hist, rdr>>

\* readerCtx.Read, lines 149-151: with the context cancelled it returns
\* (0, err) and the copy ends; otherwise the underlying Read is entered.
TaskCheck(k) ==
    /\ ~panicked
    /\ pc[Task(k)] = "t_check"
    /\ IF k \in cancelled
         THEN Goto(Task(k), "t_done")
         ELSE Goto(Task(k), "t_read")
    /\ UNCHANGED <<ctl, env, nStarts, nCalls, stack, lcmd, tdst, panicked, hist, rdr>>

\* readerCtx.Read, line 152: the read of the process's stdout returns data.
TaskReadData(k) ==
    /\ ~panicked
    /\ pc[Task(k)] = "t_read"
    /\ reaps[k] = 0
    /\ nread[k] < MaxChunks
    /\ nread' = [nread EXCEPT ![k] = @ + 1]
    /\ Goto(Task(k), "t_write")
    /\ UNCHANGED <<ctl, cancelled, launched, reaps, sinkCtx, sinkClosed, ctxCloses, nCtx,
                   nStarts, nCalls, stack, lcmd, tdst, panicked, hist, rdr>>

\* readerCtx.Read, line 152: the read returns EOF (the process has written
\* all it had) or an error (the pipe was closed); the copy ends.
TaskReadEnd(k) ==
    /\ ~panicked
    /\ pc[Task(k)] = "t_read"
    /\ Goto(Task(k), "t_done")
    /\ UNCHANGED <<ctl, env, nStarts, nCalls, stack, lcmd, tdst, panicked, hist, rdr>>

\* io.Copy's Write of the chunk just read to the player evaluated at line 96;
\* a closed player returns an error and the copy ends.
TaskWrite(k) ==
    /\ ~panicked
    /\ pc[Task(k)] = "t_write"
    /\ IF tdst[k] = 0
         THEN /\ panicked' = TRUE
              /\ UNCHANGED <<pc, wac>>
         ELSE /\ wac' = IF k \in cancelled THEN [wac EXCEPT ![k] = @ + 1] ELSE wac
              /\ IF tdst[k] \in sinkClosed
                   THEN Goto(Task(k), "t_done")
                   ELSE Goto(Task(k), "t_check")
              /\ UNCHANGED panicked
    /\ UNCHANGED <<ctl, env, nStarts, nCalls, stack, lcmd, tdst, closeEntered, closed, rdr>>

\* A faulty goroutine for comparison: it ends after wg.Done(), without Stop.
TaskDoneNoStop(k) ==
    /\ ~panicked
    /\ pc[Task(k)] = "t_done"
    /\ wg' = wg - 1
    /\ Goto(Task(k), "t_exit")
    /\ UNCHANGED <<mu, cancelPlayback, ffmpegCmd, player, context, env,
                   nStarts, nCalls, stack, lcmd, tdst, panicked, hist, rdr>>

\* A faulty goroutine for comparison: it calls ap.Stop() before wg.Done().
TaskDoneStopFirst(k) ==
    /\ ~panicked
    /\ pc[Task(k)] = "t_done"
    /\ Call(Task(k), "st_lock", <<"t_exit">>)
    /\ UNCHANGED <<ctl, env, nStarts, nCalls, lcmd, tdst, panicked, hist, rdr>>

\* Lines 99-100: wg.Done(), then the goroutine calls ap.Stop().
TaskDone(k) ==
    /\ ~panicked
    /\ pc[Task(k)] = "t_done"
    /\ wg' = wg - 1
    /\ Call(Task(k), "st_lock", <<"t_exit">>)
    /\ UNCHANGED <<mu, cancelPlayback, ffmpegCmd, player, context, env,
                   nStarts, nCalls, lcmd, tdst, panicked, hist, rdr>>

----
Next ==
    \/ \E c \in Callers : CallStart(c)
    \/ \E c \in Callers : CallStop(c)
    \/ \E c \in Callers : CallClose(c)
    \/ \E c \in Callers : StartLock(c)
    \/ \E c \in Callers : StartRelock(c)
    \/ \E c \in Callers : StartDecoder(c)
    \/ \E c \in Callers : StartPipeFail(c)
    \/ \E c \in Callers : StartLaunchFail(c)
    \/ \E c \in Callers : StartContext(c)
    \/ \E c \in Callers : StartContextFail(c)
    \/ \E c \in Callers : StartPlayer(c)
    \/ \E c \in Callers : StartSpawn(c)
    \/ \E t \in Threads : StopLock(t)
    \/ \E t \in Threads : StopWait(t)
    \/ \E t \in Threads : StopTeardown(t)
    \/ \E t \in Callers : CloseCheck(t)
    \/ \E t \in Callers : CloseContext(t)
    \/ \E t \in Callers : CloseNil(t)
    \/ \E k \in Ids : TaskEval(k)
    \/ \E k \in Ids : TaskCheck(k)
    \/ \E k \in Ids : TaskReadData(k)
    \/ \E k \in Ids : TaskReadEnd(k)
    \/ \E k \in Ids : TaskWrite(k)
    \/ \E k \in Ids : TaskDone(k)

Spec == Init /\ [][Next]_vars

----
\* What a goroutine does once it runs: every step but the callers' decisions
\* to call.  The Go scheduler runs every goroutine that can run.
CallerStep(c) ==
    \/ StartLock(c) \/ StartRelock(c)
    \/ StartDecoder(c) \/ StartPipeFail(c) \/ StartLaunchFail(c)
    \/ StartContext(c) \/ StartContextFail(c)
    \/ StartPlayer(c) \/ StartSpawn(c)
    \/ StopLock(c) \/ StopWait(c) \/ StopTeardown(c)
    \/ CloseCheck(c) \/ CloseContext(c) \/ CloseNil(c)

TaskStep(k) ==
    \/ TaskEval(k) \/ TaskCheck(k) \/ TaskReadData(k) \/ TaskReadEnd(k)
    \/ TaskWrite(k) \/ TaskDone(k)
    \/ StopLock(Task(k)) \/ StopWait(Task(k)) \/ StopTeardown(Task(k))

\* The steps of one goroutine, a caller's or a copy goroutine.
ThreadStep(t) == IF t \in Callers THEN CallerStep(t) ELSE TaskStep(t[2])

Progress == (\E c \in Callers : CallerStep(c)) \/ (\E k \in Ids : TaskStep(k))

\* Some goroutine that can take a step does take one.
Fairness == WF_vars(Progress)

\* One caller goroutine making any calls, and the copy goroutines.
SeqNext ==
    \/ CallStart(Caller(1))
    \/ CallStop(Caller(1))
    \/ CallClose(Caller(1))
    \/ CallerStep(Caller(1))
    \/ \E k \in Ids : TaskStep(k)

SeqLiveSpec == Init /\ [][SeqNext]_vars /\ Fairness

\* One caller goroutine that only ever calls Start, and the copy goroutines.
EosNext ==
    \/ CallStart(Caller(1))
    \/ CallerStep(Caller(1))
    \/ \E k \in Ids : TaskStep(k)

EosSpec == Init /\ [][EosNext]_vars /\ Fairness

----
\* readerCtx.Read examined alone, lines 148-153: one reader, Read called on
\* it again and again with buffers of every length, the underlying stream
\* returning whatever a stream may return, and the cancel function of the
\* reader's context called at any moment, also while a Read is under way.

\* A call Read(p).
ReadCall ==
    /\ rpc = "r_idle"
    /\ \E len \in 0..MaxN : rlen' = len
    /\ rpc' = "r_check"
    /\ rseen' = FALSE
    /\ rcalls' = 0
    /\ rsrc' = NoResult
    /\ rret' = NoResult
    /\ UNCHANGED <<ctl, env, thr, hist, rctx>>

\* The cancel function of r.ctx is called.
ReadCancel ==
    /\ ~rctx
    /\ rctx' = TRUE
    /\ UNCHANGED <<ctl, env, thr, hist, rpc, rseen, rlen, rcalls, rsrc, rret>>

\* A faulty reader for comparison: Read goes on to the underlying stream
\* whatever r.ctx.Err() says.
ReadCheckIgnoresCtx ==
    /\ rpc = "r_check"
    /\ rseen' = rctx
    /\ rpc' = "r_under"
    /\ UNCHANGED <<ctl, env, thr, hist, rctx, rlen, rcalls, rsrc, rret>>

\* Lines 149-151: r.ctx.Err() is not nil: return 0, err.
ReadCheck ==
    /\ rpc = "r_check"
    /\ rseen' = rctx
    /\ IF rctx
         THEN /\ rret' = Canceled
              /\ rpc' = "r_ret"
         ELSE /\ rpc' = "r_under"
              /\ UNCHANGED rret
    /\ UNCHANGED <<ctl, env, thr, hist, rctx, rlen, rcalls, rsrc>>

\* Line 152: return r.r.Read(p).  The stream returns at most len(p) bytes
\* and any error.
ReadUnder ==
    /\ rpc = "r_under"
    /\ \E n \in 0..rlen, err \in StreamErrors :
          /\ rsrc' = <<n, err>>
          /\ rret' = <<n, err>>
    /\ rcalls' = rcalls + 1
    /\ rpc' = "r_ret"
    /\ UNCHANGED <<ctl, env, thr, hist, rctx, rseen, rlen>>

\* Read has returned rret to its caller.
ReadReturn ==
    /\ rpc = "r_ret"
    /\ rpc' = "r_idle"
    /\ UNCHANGED <<ctl, env, thr, hist, rctx, rseen, rlen, rcalls, rsrc, rret>>

\* NewReader, lines 156-158, on a context that is cancelled already or not.
ReadInit ==
    /\ NewAudioPlayer
    /\ rpc = "r_idle"
    /\ rctx \in BOOLEAN
    /\ rseen = FALSE
    /\ rlen = 0
    /\ rcalls = 0
    /\ rsrc = NoResult
    /\ rret = NoResult

ReadNext ==
    \/ ReadCall
    \/ ReadCancel
    \/ ReadCheck
    \/ ReadUnder
    \/ ReadReturn

ReadSpec == ReadInit /\ [][ReadNext]_vars

----
\* Vocabulary of the properties.

\* A thread is inside Stop.
InStop(t) == pc[t] \in {"st_lock", "st_wait", "st_kill"}

\* The copy goroutines that are inside io.Copy.
ActiveTasks == {k \in Ids : pc[Task(k)] \in {"t_eval", "t_check", "t_read", "t_write"}}

\* The copy goroutines that have not called wg.Done() yet.
Copying == {k \in Ids : pc[Task(k)] \in {"t_eval", "t_check", "t_read", "t_write", "t_done"}}

\* The Start calls that returned nil: each has spawned its copy goroutine.
Spawned == {k \in Ids : pc[Task(k)] # "t_none"}

\* The controller holds no session.
IdleCtl == ffmpegCmd = 0 /\ player = 0

\* The fields of the controller other than the mutex.
fields == <<wg, cancelPlayback, ffmpegCmd, player, context>>

\* A thread is blocked in Lock (lines 48, 54, 110), the mutex being held.
WaitsMutex(t) == pc[t] \in {"s_lock", "s_relock", "st_lock"} /\ mu # NoOne

\* A thread is blocked in wg.Wait() (line 119), the counter not being zero.
WaitsDone(t) == pc[t] = "st_wait" /\ wg > 0

\* The fields the next step of a thread writes, and those it reads, once it
\* holds whatever lock that step takes first (a thread at a Lock call
\* accesses nothing until it has the mutex).
Writes(t) ==
    CASE pc[t] = "s_pipe" -> {"cancelPlayback"}
      [] pc[t] = "s_ctx" -> {"context"}
      [] pc[t] = "s_player" -> {"player"}
      [] pc[t] = "s_go" -> {"ffmpegCmd"}
      [] pc[t] = "st_kill" -> {"ffmpegCmd", "player"}
      [] pc[t] = "c_nil" -> {"context"}
      [] OTHER -> {}

Reads(t) ==
    CASE pc[t] \in {"s_ctx", "s_player"} -> {"context"}
      [] pc[t] = "st_kill" -> {"ffmpegCmd", "player"}
      [] pc[t] \in {"c_check", "c_close"} -> {"context"}
      [] pc[t] = "t_eval" -> {"player"}
      [] OTHER -> {}

\* A caller (not Start) is inside Close: in its Stop, or in lines 136-139.
CallerInClose(c) ==
    \/ InStop(c) /\ stack[c] = <<"c_check", "idle">>
    \/ pc[c] \in {"c_check", "c_close", "c_nil"} /\ stack[c] = <<"idle">>

\* The controller as a Close leaves it: no session, no oto context, no copy
\* goroutine counted, no cancel function that was not called.
ClosedCtl ==
    /\ IdleCtl
    /\ context = 0
    /\ wg = 0
    /\ cancelPlayback = 0 \/ cancelPlayback \in cancelled

----
\* C1 (single session): at most one copy goroutine is inside io.Copy at any
\* instant, and once a Start has launched its decoder no earlier copy
\* goroutine is still copying and the controller holds no earlier process
\* or sink.
C1_SingleSession ==
    /\ Cardinality(ActiveTasks) <= 1
    /\ \A c \in Callers :
          pc[c] \in {"s_ctx", "s_player", "s_go"} =>
              ActiveTasks = {} /\ ffmpegCmd = 0

\* C2 (context released only when unused): a copy goroutine inside io.Copy
\* writes to a sink whose oto context has not been closed, and Start never
\* mints a sink from a nil or closed context.
C2_ContextOpenWhileUsed ==
    /\ \A k \in ActiveTasks : ctxCloses[sinkCtx[k]] = 0
    /\ \A c \in Callers :
          /\ ~(panicked /\ pc[c] = "s_player")
          /\ pc[c] = "s_go" => ctxCloses[sinkCtx[lcmd[c]]] = 0

\* C3 (failed Start leaves no partial session): in the step in which Start
\* returns an error, it leaves no process handle, no sink, no cancel
\* function that was not called, no copy goroutine, and the process it
\* launched, if any, has been reaped.
C3_FailedStartLeavesNothing ==
    [][\A c \in Callers :
          (pc[c] \in {"s_pipe", "s_ctx"} /\ pc'[c] = "idle") =>
              /\ ffmpegCmd' = 0
              /\ player' = 0
              /\ cancelPlayback' = 0 \/ cancelPlayback' \in cancelled'
              /\ ActiveTasks' = {}
              /\ lcmd[c] \in launched' => reaps'[lcmd[c]] = 1]_vars

\* C4 (reaped exactly once): no process is killed and waited on twice, and
\* a launched process that has not been reaped yet is still held, by
\* ap.ffmpegCmd or by the Start call that launched it.
C4_ReapedExactlyOnce ==
    \A p \in launched :
        /\ reaps[p] <= 1
        /\ reaps[p] = 0 =>
              \/ ffmpegCmd = p
              \/ \E c \in Callers : lcmd[c] = p /\ pc[c] \in {"s_ctx", "s_player", "s_go"}

\* C5 (context survives restart): a Start that finds a session running
\* stops it and never releases the oto context: no thread is in the part
\* of Close that releases the context on behalf of Start.
C5_StartNeverClosesContext ==
    \A c \in Callers :
        ~(pc[c] \in {"c_close", "c_nil"} /\ stack[c] = <<"s_relock">>)

\* C6 (context reuse): as long as Close has never been called, by a caller
\* or by a Start that found a session running, all the Starts that
\* succeeded share one oto context, created once.
C6_ContextCreatedOnce ==
    ~closeEntered =>
        /\ nCtx <= 1
        /\ Spawned # {} => nCtx = 1 /\ context = 1
        /\ \A k \in Spawned : sinkCtx[k] = 1 /\ ctxCloses[1] = 0

\* C6's case: two sessions started and stopped in turn, no Close.
C6_Witness ==
    /\ ~closeEntered
    /\ Spawned = {1, 2}
    /\ reaps[1] = 1 /\ reaps[2] = 1
    /\ IdleCtl
    /\ nCtx = 1

\* C7 (self-cleanup at end of stream): with no caller ever calling Stop or
\* Close, every session a Start has created is eventually torn down, its
\* process reaped and its sink closed, and the controller is idle.
C7_SelfCleanup ==
    \A k \in Ids :
        (pc[Task(k)] = "t_eval") ~> (IdleCtl /\ reaps[k] = 1 /\ k \in sinkClosed)

\* C7's case: one Start and nothing else, and the goroutine's own Stop has
\* torn the session down.
C7_Witness ==
    /\ nCalls = 1
    /\ pc[Task(1)] = "t_exit"
    /\ IdleCtl
    /\ reaps[1] = 1
    /\ 1 \in sinkClosed

\* C8 as stated: a copy goroutine writes nothing to the sink once its
\* context has been cancelled.
C8_NoWriteAfterCancel == \A k \in Ids : wac[k] = 0

\* C8 amended: once its context has been cancelled, a copy goroutine enters
\* no further underlying read and writes at most one more chunk to the sink.
C8_AtMostOneWriteAfterCancel ==
    [][\A k \in Ids :
          /\ k \in cancelled => ~(pc[Task(k)] = "t_check" /\ pc'[Task(k)] = "t_read")
          /\ wac'[k] <= 1]_vars

\* C8's case: the chunk of a read that was in flight when Stop cancelled was
\* written after the cancellation, and the next Read ended the copy.
C8_Witness ==
    \E k \in Ids : wac[k] = 1 /\ pc[Task(k)] = "t_done" /\ k \notin sinkClosed

\* C9 (Stop always returns): a thread that is inside Stop eventually leaves it.
C9_StopReturns == \A t \in Threads : InStop(t) ~> ~InStop(t)

\* With several callers: a thread inside Stop is left with no goroutine able
\* to step only once a nil dereference has ended the program.
StopStuckOnlyAfterPanic ==
    (\E t \in Threads : InStop(t)) => (panicked \/ ENABLED Progress)

\* C9's case: a caller's Stop has cancelled and waits for the copy goroutine
\* of the running session, whose underlying read is in flight.
C9_Witness ==
    \E c \in Callers :
        /\ pc[c] = "st_wait"
        /\ wg > 0
        /\ ffmpegCmd # 0
        /\ pc[Task(ffmpegCmd)] = "t_read"

\* C10 (Stop on an idle controller): every step of a Stop that runs while
\* the controller holds no session leaves the fields as they are, and its
\* wait finds the counter at zero.
C10_StopOnIdleIsNoOp ==
    [][\A t \in Threads :
          (InStop(t) /\ IdleCtl) =>
              /\ pc[t] = "st_wait" => wg = 0
              /\ pc'[t] # pc[t] => UNCHANGED fields]_vars

\* C10's case: a caller's Stop on an idle controller that still holds the
\* cancel function of an earlier Start has passed its wait.
C10_Witness ==
    \E c \in Callers :
        /\ pc[c] = "st_kill"
        /\ stack[c] = <<"idle">>
        /\ IdleCtl
        /\ cancelPlayback # 0

\* C16 (cancellable adapter read): a Read that finds the context cancelled
\* returns (0, err) with err not nil and never calls the underlying Read; a
\* Read that finds it not cancelled calls the underlying Read exactly once
\* and returns its byte count and error as they are, also when the context
\* is cancelled while that read is in flight.
C16_ReadChecksThenDelegates ==
    /\ rcalls <= 1
    /\ rpc = "r_under" => ~rseen /\ rcalls = 0
    /\ rpc = "r_ret" =>
          IF rseen
            THEN rcalls = 0 /\ rsrc = NoResult /\ rret[1] = 0 /\ rret[2] # "nil"
            ELSE rcalls = 1 /\ rret = rsrc

\* C16's case: the context was cancelled while the underlying read was in
\* flight, and Read returned the bytes that read delivered.
C16_Witness ==
    /\ rpc = "r_ret"
    /\ rctx /\ ~rseen
    /\ rcalls = 1
    /\ rret = rsrc
    /\ rret[1] = MaxN /\ rret[2] = "nil"

\* C11 (idempotent Close, calls made one after the other): when a caller's
\* Close returns, the controller is closed and every oto context created so
\* far has been closed exactly once; and while a caller is inside a Close
\* that found the controller closed, as the second of two Closes in a row
\* does, no step changes a field, cancels, reaps or closes anything.
C11_CloseTwiceIsCloseOnce ==
    [][\A c \in Callers :
          /\ (CallerInClose(c) /\ pc'[c] = "idle") =>
                /\ ClosedCtl'
                /\ \A x \in 1..nCtx' : ctxCloses'[x] = 1
          /\ (CallerInClose(c) /\ ClosedCtl) =>
                UNCHANGED <<fields, cancelled, reaps, sinkClosed, ctxCloses, nCtx>>]_vars

\* C11's case: Start, Close, Close from one goroutine; the second Close has
\* gone through its Stop and finds the context closed once and nil.
C11_Witness ==
    \E c \in Callers :
        /\ pc[c] = "c_check" /\ stack[c] = <<"idle">>
        /\ closed
        /\ nCalls = 3
        /\ Spawned = {1}
        /\ ClosedCtl
        /\ nCtx = 1 /\ ctxCloses[1] = 1

\* C12 (Closed is terminal): once a caller's Close has returned, no Start
\* launches a process, creates an oto context or returns nil having
\* spawned a copy goroutine.
C12_ClosedIsTerminal ==
    [][closed => /\ launched' = launched
                 /\ nCtx' = nCtx
                 /\ Spawned' = Spawned]_vars

C14_LockDiscipline ==
    /\ \A t \in Threads : (Reads(t) \cup Writes(t)) # {} => mu = t
    /\ \A t, u \in Threads :
          t # u => Writes(t) \cap (Reads(u) \cup Writes(u)) = {}

\* C15 (deadlock freedom): as long as the program runs, every wait leads to
\* a goroutine that can step.  A thread blocked in wg.Wait() waits only for
\* copy goroutines that have not called wg.Done() yet, each counted once,
\* and each of those can step without the mutex; a thread blocked in Lock
\* waits for another thread, which can step or is itself in wg.Wait().
C15_NoDeadlock ==
    ~panicked =>
        /\ \A t \in Threads :
              WaitsDone(t) =>
                  /\ mu = t
                  /\ wg = Cardinality(Copying)
                  /\ \A k \in Copying : ENABLED TaskStep(k)
        /\ \A t \in Threads :
              WaitsMutex(t) =>
                  /\ mu # t
                  /\ ENABLED ThreadStep(mu) \/ WaitsDone(mu)

\* C15's case: a Start that found a session running has released the mutex
\* and is in its nested Stop, waiting for the copy goroutine, which has ended
\* its copy and is about to call wg.Done() and then Stop; another caller is
\* blocked in Lock.
C15_Witness ==
    \E c, d \in Callers :
        /\ c # d
        /\ stack[c] = <<"c_check", "s_relock">>
        /\ WaitsDone(c)
        /\ WaitsMutex(d)
        /\ \E k \in Ids : pc[Task(k)] = "t_done"

\* C17 (no stale self-invoked Stop): the Stop a copy goroutine calls when
\* its copy has ended does not cancel, kill or release the session of
\* another successful Start.
C17_SelfStopOwnSessionOnly ==
    [][\A k \in Ids :
          (InStop(Task(k)) /\ pc'[Task(k)] # pc[Task(k)]) =>
              \A p \in Spawned \ {k} :
                  /\ p \in cancelled' => p \in cancelled
                  /\ p \in sinkClosed' => p \in sinkClosed
                  /\ reaps'[p] = reaps[p]]_vars

\* C18 (the stored cancel function is the active session's): while a copy
\* goroutine is inside io.Copy, ap.cancelPlayback is the cancel function of
\* the context its reader wraps.
C18_CancelReachesActiveTask ==
    \A k \in ActiveTasks : cancelPlayback = k

\* C19 (handle consistency): whenever the mutex is free, ap.ffmpegCmd is set
\* exactly when ap.player is set, and while a copy goroutine is inside
\* io.Copy both are set and ap.context is not nil.
C19_HandlesConsistent ==
    mu = NoOne =>
        /\ (ffmpegCmd # 0) <=> (player # 0)
        /\ ActiveTasks # {} => (ffmpegCmd # 0 /\ player # 0 /\ context # 0)

\* C20 (mutex balance in Start): from line 58 on Start holds the mutex, so
\* it holds it when it writes the cancel function, the player and the
\* command; every return of Start releases a mutex Start holds; between
\* the Unlock of line 52 and the Lock of line 54 Start does not hold it; and
\* a caller that is in no call holds nothing.
C20_StartMutexBalance ==
    [][\A c \in Callers :
          /\ pc[c] \in {"s_pipe", "s_ctx", "s_player", "s_go"} => mu = c
          /\ (pc[c] \in {"s_pipe", "s_ctx", "s_go"} /\ pc'[c] = "idle") => mu' = NoOne
          /\ (pc[c] = "s_lock" /\ pc'[c] = "st_lock") => mu' # c
          /\ pc[c] = "s_relock" => mu # c
          /\ pc'[c] = "idle" => mu' # c]_vars

\* C20's case: a Start that found a session running has gone through the
\* Unlock, the nested Close and the Lock of lines 52-54, holds the mutex
\* again and has stored its cancel function.
C20_Witness ==
    \E c \in Callers :
        /\ pc[c] = "s_ctx"
        /\ mu = c
        /\ nCalls = 2
        /\ lcmd[c] = 2 /\ cancelPlayback = 2
        /\ Spawned = {1}
        /\ ctxCloses[1] = 1 /\ context = 0

====
